---- MODULE Spec2Model ----
(***************************************************************************)
(* metashield: content-sniffed metadata extraction (extract_metadata and   *)
(* its four extractors), the privacy stripper (strip_image_metadata) and   *)
(* the /api/clean route that serves the stripped buffer.                   *)
(*                                                                         *)
(* A byte buffer is represented by what the collaborators answer on it:    *)
(* the MIME string libmagic sniffs, what the image codec decodes, what the *)
(* EXIF / PDF / DOCX parsers return.  Python values are tagged records so  *)
(* that None, strings, floats and dicts can be compared with each other:   *)
(*   None            [none |-> TRUE]                                       *)
(*   str             [str |-> "..."]                                       *)
(*   float           [num |-> n, den |-> d]  (the exact rational n/d)      *)
(*   dict            a function from its keys                              *)
(* MIME strings and file names are sequences of characters, so that        *)
(* startswith, `in` and os.path.splitext are computed, not assumed.        *)
(***************************************************************************)
EXTENDS Integers, Sequences, FiniteSets, TLC

VARIABLES
    pc,          \* position of the running call
    call,        \* the call: which entry point, and the buffer it is given
    result,      \* extract_metadata's `result` dict
    raised,      \* the exception that escaped the call, or None
    info,        \* extract_audio_metadata's `info` dict
    tmp,         \* the call's temporary file: "none", "open" or "released"
    written,     \* t.write(file_bytes) has completed
    flushed,     \* t.flush() has completed
    pending,     \* exception in flight inside extract_audio_metadata's try
    parsedAt,    \* None, or when MutagenFile was invoked: written, flushed, its answer
    stripped,    \* outcome of strip_image_metadata on the buffer
    restripped,  \* outcome of strip_image_metadata on that outcome's buffer
    response     \* what clean_file answers

vars == <<pc, call, result, raised, info, tmp, written, flushed, pending,
          parsedAt, stripped, restripped, response>>

---------------------------------------------------------------------------
(* Python values *)

None == [none |-> TRUE]
S(s) == [str |-> s]
EmptyDict == [k \in {} |-> TRUE]
Put(d, k, v) == (k :> v) @@ d
GetDefault(d, k, default) == IF k \in DOMAIN d THEN d[k] ELSE default
Get(d, k) == GetDefault(d, k, None)
\* bool(v): None and "" are falsy; tag objects and non-empty strings are truthy
Truthy(v) == v # None /\ v # S("")
PyOr(a, b) == IF Truthy(a) THEN a ELSE b
\* str(v) as an f-string renders it
PyStr(v) == IF v = None THEN "None" ELSE v.str

StartsWith(s, p) == Len(s) >= Len(p) /\ SubSeq(s, 1, Len(p)) = p
Contains(s, p) == \E i \in 1..(Len(s) - Len(p) + 1) : SubSeq(s, i, i + Len(p) - 1) = p

\* floats, kept exact: the rational n/d in lowest terms, d > 0
RECURSIVE Gcd(_, _)
Gcd(a, b) == IF b = 0 THEN a ELSE Gcd(b, a % b)
Abs(n) == IF n < 0 THEN -n ELSE n
Float(n, d) == LET g == Gcd(Abs(n), d) IN [num |-> n \div g, den |-> d \div g]
FAdd(a, b) == Float(a.num * b.den + b.num * a.den, a.den * b.den)
FDivInt(a, k) == Float(a.num, a.den * k)
FNeg(a) == Float(-a.num, a.den)
FZero == Float(0, 1)

---------------------------------------------------------------------------
(* MIME strings libmagic returns *)

MimeJpeg == <<"i", "m", "a", "g", "e", "/", "j", "p", "e", "g">>
MimePng == <<"i", "m", "a", "g", "e", "/", "p", "n", "g">>
MimeGif == <<"i", "m", "a", "g", "e", "/", "g", "i", "f">>
MimeTiff == <<"i", "m", "a", "g", "e", "/", "t", "i", "f", "f">>
MimeWebp == <<"i", "m", "a", "g", "e", "/", "w", "e", "b", "p">>
MimeBmp == <<"i", "m", "a", "g", "e", "/", "b", "m", "p">>
MimeSvg == <<"i", "m", "a", "g", "e", "/", "s", "v", "g", "+", "x", "m", "l">>
MimePdf == <<"a", "p", "p", "l", "i", "c", "a", "t", "i", "o", "n", "/", "p", "d", "f">>
MimeDocx == <<"a", "p", "p", "l", "i", "c", "a", "t", "i", "o", "n", "/", "v", "n", "d", ".", "o", "p", "e", "n", "x", "m", "l", "f", "o", "r", "m", "a", "t", "s", "-", "o", "f", "f", "i", "c", "e", "d", "o", "c", "u", "m", "e", "n", "t", ".", "w", "o", "r", "d", "p", "r", "o", "c", "e", "s", "s", "i", "n", "g", "m", "l", ".", "d", "o", "c", "u", "m", "e", "n", "t">>
MimeMpeg == <<"a", "u", "d", "i", "o", "/", "m", "p", "e", "g">>
MimeWav == <<"a", "u", "d", "i", "o", "/", "x", "-", "w", "a", "v">>
MimeText == <<"t", "e", "x", "t", "/", "p", "l", "a", "i", "n">>
MimeOctet == <<"a", "p", "p", "l", "i", "c", "a", "t", "i", "o", "n", "/", "o", "c", "t", "e", "t", "-", "s", "t", "r", "e", "a", "m">>
MimeEmpty == <<"a", "p", "p", "l", "i", "c", "a", "t", "i", "o", "n", "/", "x", "-", "e", "m", "p", "t", "y">>
MimeZip == <<"a", "p", "p", "l", "i", "c", "a", "t", "i", "o", "n", "/", "z", "i", "p">>
MimeMp4 == <<"v", "i", "d", "e", "o", "/", "m", "p", "4">>
MimePostscript == <<"a", "p", "p", "l", "i", "c", "a", "t", "i", "o", "n", "/", "p", "o", "s", "t", "s", "c", "r", "i", "p", "t">>

ImagePrefix == <<"i", "m", "a", "g", "e", "/">>
AudioPrefix == <<"a", "u", "d", "i", "o", "/">>
ApplicationPrefix == <<"a", "p", "p", "l", "i", "c", "a", "t", "i", "o", "n", "/">>
DocxMarker == <<"w", "o", "r", "d", "p", "r", "o", "c", "e", "s", "s", "i", "n", "g", "m", "l">>

ImageMimes == {MimeJpeg, MimePng, MimeGif, MimeTiff, MimeWebp, MimeBmp, MimeSvg}
AudioMimes == {MimeMpeg, MimeWav}
OtherMimes == {MimeText, MimeOctet, MimeEmpty, MimeZip, MimeMp4, MimePostscript}
\* sniff_mime: every string the sniffer answers in this model
SnifferMimes == ImageMimes \cup AudioMimes \cup OtherMimes \cup {MimePdf, MimeDocx}

---------------------------------------------------------------------------
(* What the EXIF tag parser (exifread.process_file) answers on a buffer *)

\* an IfdTag: its .values and the string str() prints
Tag(values, printable) == [values |-> values, printable |-> printable]
\* an exifread Ratio with .num and .den
R(n, d) == [num |-> n, den |-> d]

TagMake == "Image Make"
TagModel == "Image Model"
TagDate == "EXIF DateTimeOriginal"
TagSoftware == "Image Software"
TagLat == "GPS GPSLatitude"
TagLatRef == "GPS GPSLatitudeRef"
TagLon == "GPS GPSLongitude"
TagLonRef == "GPS GPSLongitudeRef"
TagNames == {TagMake, TagModel, TagDate, TagSoftware, TagLat, TagLatRef, TagLon, TagLonRef}

\* latitude/longitude values as cameras write them: proper triples, the
\* equator/meridian, the 0/0 triple of a receiver without a fix, a zero
\* denominator in one component, and a truncated (two-component) value
TripleSpec == <<R(40, 1), R(26, 1), R(46, 1)>>
TripleZero == <<R(0, 1), R(0, 1), R(0, 1)>>
TripleFrac == <<R(79, 1), R(58, 1), R(561, 10)>>
TripleNoFix == <<R(0, 0), R(0, 0), R(0, 0)>>
TripleZeroDen == <<R(12, 1), R(30, 1), R(7, 0)>>
TripleShort == <<R(40, 1), R(26, 1)>>

MakeTags == {None, Tag("Canon", "Canon"), Tag("", "")}
ModelTags == {None, Tag("EOS 80D", "EOS 80D")}
DateTags == {None, Tag("2021:03:04 10:11:12", "2021:03:04 10:11:12")}
SoftwareTags == {None, Tag("GIMP 2.10", "GIMP 2.10"), Tag("", "")}
\* and every triple over small numerators with a common denominator, zero
\* included
MaxNum == 2
MaxDen == 2
GridTriples == {<<R(d, e), R(m, e), R(s, e)>> : d \in 0..MaxNum, m \in 0..MaxNum, s \in 0..MaxNum, e \in 0..MaxDen}
LatTags == {None, Tag(TripleSpec, "[40, 26, 46]"), Tag(TripleZero, "[0, 0, 0]"),
            Tag(TripleNoFix, "[0/0, 0/0, 0/0]"), Tag(TripleShort, "[40, 26]")}
           \cup {Tag(t, "[d, m, s]") : t \in GridTriples}
LatRefTags == {None, Tag("N", "N"), Tag("S", "S"), Tag("n", "n")}
LonTags == {None, Tag(TripleFrac, "[79, 58, 561/10]"), Tag(TripleSpec, "[40, 26, 46]"),
            Tag(TripleZeroDen, "[12, 30, 7/0]")}
LonRefTags == {None, Tag("E", "E"), Tag("W", "W")}

\* the tags mapping: only the tags the file carries are keys
MkTags(mk, md, dt, sw, la, lar, lo, lor) ==
    LET all == (TagMake :> mk) @@ (TagModel :> md) @@ (TagDate :> dt) @@ (TagSoftware :> sw)
               @@ (TagLat :> la) @@ (TagLatRef :> lar) @@ (TagLon :> lo) @@ (TagLonRef :> lor)
    IN [k \in {n \in TagNames : all[n] # None} |-> all[k]]

ExifFailed == [ok |-> FALSE, err |-> "exif parser failed"]
ExifOk(tags) == [ok |-> TRUE, tags |-> tags]
\* every camera-tag combination with three GPS situations, and every GPS
\* combination with two camera-tag situations
ExifCameraAnswers ==
    {ExifOk(MkTags(mk, md, dt, sw, g[1], g[2], g[3], g[4])) :
        mk \in MakeTags, md \in ModelTags, dt \in DateTags, sw \in SoftwareTags,
        g \in {<<None, None, None, None>>,
               <<Tag(TripleSpec, "[40, 26, 46]"), Tag("N", "N"), Tag(TripleFrac, "[79, 58, 561/10]"), Tag("W", "W")>>,
               <<Tag(TripleNoFix, "[0/0, 0/0, 0/0]"), Tag("S", "S"), Tag(TripleFrac, "[79, 58, 561/10]"), Tag("E", "E")>>}}
ExifGpsAnswers ==
    {ExifOk(MkTags(c[1], c[2], c[3], c[4], la, lar, lo, lor)) :
        la \in LatTags, lar \in LatRefTags, lo \in LonTags, lor \in LonRefTags,
        c \in {<<None, None, None, None>>,
               <<Tag("Canon", "Canon"), Tag("EOS 80D", "EOS 80D"),
                 Tag("2021:03:04 10:11:12", "2021:03:04 10:11:12"), Tag("GIMP 2.10", "GIMP 2.10")>>}}
ExifAnswers == {ExifFailed} \cup ExifCameraAnswers \cup ExifGpsAnswers
ExifFew == {ExifFailed, ExifOk(EmptyDict),
            ExifOk(MkTags(Tag("Canon", "Canon"), None, None, None,
                          Tag(TripleSpec, "[40, 26, 46]"), Tag("S", "S"),
                          Tag(TripleSpec, "[40, 26, 46]"), Tag("E", "E")))}

---------------------------------------------------------------------------
(* What the image codec (PIL Image.open) answers on a buffer *)

NoImage == [ok |-> FALSE, err |-> "cannot identify image file"]
\* a decoded image: format, size, pixel mode, and whether its info carries
\* ancillary metadata (EXIF block, text chunks, ICC profile, ...)
Image(fmt, mode, meta) == [ok |-> TRUE, format |-> fmt, size |-> <<640, 480>>, mode |-> mode, meta |-> meta]

\* the pixel modes each format's decoder produces
DecodedModes(fmt) ==
    CASE fmt = "JPEG" -> {"L", "RGB", "CMYK"}
      [] fmt = "MPO" -> {"RGB"}
      [] fmt = "PNG" -> {"1", "L", "LA", "I", "I;16", "P", "RGB", "RGBA"}
      [] fmt = "GIF" -> {"L", "P"}
      [] fmt = "BMP" -> {"1", "L", "P", "RGB", "RGBA"}
      [] fmt = "WEBP" -> {"RGB", "RGBA"}
      [] fmt = "TIFF" -> {"1", "L", "LA", "P", "PA", "RGB", "RGBA", "RGBX",
                          "CMYK", "YCbCr", "LAB", "I", "I;16", "F"}
Formats == {"JPEG", "MPO", "PNG", "GIF", "BMP", "WEBP", "TIFF"}
Images == {Image(f, m, meta) : f \in Formats, m \in UNION {DecodedModes(g) : g \in Formats}, meta \in BOOLEAN}
DecodableImages == {i \in Images : i.mode \in DecodedModes(i.format)}
ImageAnswers == {NoImage} \cup DecodableImages

\* the MIME string libmagic gives a file of each image format
MimeOfFormat(fmt) ==
    CASE fmt = "JPEG" -> MimeJpeg
      [] fmt = "MPO" -> MimeJpeg
      [] fmt = "PNG" -> MimePng
      [] fmt = "GIF" -> MimeGif
      [] fmt = "BMP" -> MimeBmp
      [] fmt = "WEBP" -> MimeWebp
      [] fmt = "TIFF" -> MimeTiff

---------------------------------------------------------------------------
(* What the PDF and DOCX parsers answer on a buffer *)

DocFailed == [ok |-> FALSE, err |-> "parser failed"]
PdfAnswers == {DocFailed,
               [ok |-> TRUE, num_pages |-> 1, metadata |-> None],
               [ok |-> TRUE, num_pages |-> 3, metadata |-> ("/Author" :> S("A. Writer"))]}
DocxAnswers == {DocFailed,
                [ok |-> TRUE, author |-> S("A. Writer"), title |-> S(""), created |-> None, modified |-> None],
                [ok |-> TRUE, author |-> S(""), title |-> S("Report"),
                 created |-> S("2021-03-04 10:11:12"), modified |-> S("2021-03-05 09:00:00")]}

---------------------------------------------------------------------------
(* _convert_to_degrees *)

\* x.num / x.den for each x, then d + m/60 + s/3600; any exception gives None
convert_to_degrees(value) ==
    IF Len(value) # 3 \/ \E i \in 1..Len(value) : value[i].den = 0
    THEN None
    ELSE LET d == Float(value[1].num, value[1].den)
             m == Float(value[2].num, value[2].den)
             s == Float(value[3].num, value[3].den)
         IN FAdd(FAdd(d, FDivInt(m, 60)), FDivInt(s, 3600))

---------------------------------------------------------------------------
(* extract_image_metadata.  Each try body yields the locals it leaves and   *)
(* the exception it ends with (None when it completes); each except clause *)
(* consumes the exception.                                                 *)

NoPresence == [gps_data |-> FALSE, camera_info |-> FALSE, timestamp |-> FALSE]

\* try body, lines 30-33
OpenImage(b, inf) ==
    IF b.img.ok
    THEN [info |-> Put(Put(Put(inf, "format", S(b.img.format)), "size", b.img.size),
                       "mode", S(b.img.mode)),
          exc |-> None]
    ELSE [info |-> inf, exc |-> S(b.img.err)]

\* except clause, lines 34-35
ImageExcept(r) ==
    IF r.exc # None
    THEN [info |-> Put(r.info, "image_error", r.exc), exc |-> None]
    ELSE r

\* lines 41-56: the derived camera fields and their presence flags
DerivedFields(tags, inf, presence) ==
    LET exif == [k \in DOMAIN tags |-> S(tags[k].printable)]
        make == Get(exif, TagMake)
        model == Get(exif, TagModel)
        date_taken == Get(exif, TagDate)
        inf1 == Put(inf, "raw_exif", exif)
        inf2 == Put(inf1, "camera_make", PyOr(make, S("Unknown")))
        inf3 == Put(inf2, "camera_model", PyOr(model, S("Unknown")))
        inf4 == Put(inf3, "datetime_original", PyOr(date_taken, S("Unknown")))
        inf5 == Put(inf4, "software", GetDefault(exif, TagSoftware, S("Unknown")))
        p1 == IF Truthy(make) \/ Truthy(model) THEN [presence EXCEPT !.camera_info = TRUE] ELSE presence
        p2 == IF Truthy(date_taken) THEN [p1 EXCEPT !.timestamp = TRUE] ELSE p1
    IN [info |-> inf5, presence |-> p2, exc |-> None]

\* Signed with the test inverted to the negative hemisphere letters
SignedSouthWest(v, ref, positive) == IF ref \in {"S", "W"} THEN FNeg(v) ELSE v

\* lines 66-69: the coordinate is negated unless the reference is the
\* positive hemisphere ("N" for latitude, "E" for longitude)
Signed(v, ref, positive) == IF ref # positive THEN FNeg(v) ELSE v

\* lines 58-73: the GPS block.  Negating None raises TypeError
GpsFields(tags, inf, presence) ==
    LET gps_lat == Get(tags, TagLat)
        gps_lat_ref == Get(tags, TagLatRef)
        gps_lon == Get(tags, TagLon)
        gps_lon_ref == Get(tags, TagLonRef)
    IN IF Truthy(gps_lat) /\ Truthy(gps_lat_ref) /\ Truthy(gps_lon) /\ Truthy(gps_lon_ref)
       THEN LET lat == convert_to_degrees(gps_lat.values)
                lon == convert_to_degrees(gps_lon.values)
                typeError == S("bad operand type for unary -: 'NoneType'")
            IN IF gps_lat_ref.values # "N" /\ lat = None
               THEN [info |-> inf, presence |-> presence, exc |-> typeError]
               ELSE IF gps_lon_ref.values # "E" /\ lon = None
               THEN [info |-> inf, presence |-> presence, exc |-> typeError]
               ELSE LET lat1 == IF lat = None THEN None ELSE Signed(lat, gps_lat_ref.values, "N")
                        lon1 == IF lon = None THEN None ELSE Signed(lon, gps_lon_ref.values, "E")
                    IN [info |-> Put(inf, "gps", [latitude |-> lat1, longitude |-> lon1]),
                        presence |-> [presence EXCEPT !.gps_data = TRUE],
                        exc |-> None]
       ELSE [info |-> Put(inf, "gps", S("No GPS data found")), presence |-> presence, exc |-> None]

\* try body, lines 40-73
ParseExif(b, inf, presence) ==
    IF ~b.exif.ok
    THEN [info |-> inf, presence |-> presence, exc |-> S(b.exif.err)]
    ELSE LET r == DerivedFields(b.exif.tags, inf, presence)
         IN GpsFields(b.exif.tags, r.info, r.presence)

\* ExifExcept rebinding info instead of adding the error key to it
ExifExceptClobber(r) ==
    IF r.exc # None
    THEN [info |-> Put(EmptyDict, "exif_error", r.exc), presence |-> r.presence, exc |-> None]
    ELSE r

\* except clause, lines 75-76
ExifExcept(r) ==
    IF r.exc # None
    THEN [info |-> Put(r.info, "exif_error", r.exc), presence |-> r.presence, exc |-> None]
    ELSE r

\* lines 26-79: the dict returned, and the exception that escapes (None)
extract_image_metadata(b) ==
    LET r1 == ImageExcept(OpenImage(b, EmptyDict))
        r2 == IF r1.exc # None
              THEN [info |-> r1.info, presence |-> NoPresence, exc |-> r1.exc]
              ELSE ExifExcept(ParseExif(b, r1.info, NoPresence))
    IN IF r2.exc # None
       THEN [ret |-> None, exc |-> r2.exc]
       ELSE [ret |-> Put(r2.info, "presence_report", r2.presence), exc |-> None]

---------------------------------------------------------------------------
(* extract_pdf_metadata, extract_docx_metadata *)

DocExcept(r, key) ==
    IF r.exc # None THEN [info |-> Put(r.info, key, r.exc), exc |-> None] ELSE r

\* lines 82-90
extract_pdf_metadata(b) ==
    LET body == IF b.doc.ok
                THEN [info |-> Put(Put(EmptyDict, "num_pages", b.doc.num_pages), "document_info",
                                   IF b.doc.metadata = None THEN EmptyDict ELSE b.doc.metadata),
                      exc |-> None]
                ELSE [info |-> EmptyDict, exc |-> S(b.doc.err)]
        r == DocExcept(body, "pdf_error")
    IN [ret |-> r.info, exc |-> r.exc]

\* lines 93-104
extract_docx_metadata(b) ==
    LET body == IF b.doc.ok
                THEN [info |-> Put(Put(Put(Put(EmptyDict, "author", b.doc.author), "title", b.doc.title),
                                       "created", S(PyStr(b.doc.created))),
                                   "modified", S(PyStr(b.doc.modified))),
                      exc |-> None]
                ELSE [info |-> EmptyDict, exc |-> S(b.doc.err)]
        r == DocExcept(body, "docx_error")
    IN [ret |-> r.info, exc |-> r.exc]

---------------------------------------------------------------------------
(* extract_metadata, lines 122-148 *)

\* Dispatch with the PDF test loosened from equality to a prefix test
DispatchPdfPrefix(mime) ==
    IF StartsWith(mime, ImagePrefix) THEN "image"
    ELSE IF StartsWith(mime, ApplicationPrefix) THEN "pdf"
    ELSE IF Contains(mime, DocxMarker) THEN "docx"
    ELSE IF StartsWith(mime, AudioPrefix) THEN "audio"
    ELSE "note"

\* which branch of the if/elif chain a MIME string takes
Dispatch(mime) ==
    IF StartsWith(mime, ImagePrefix) THEN "image"
    ELSE IF mime = MimePdf THEN "pdf"
    ELSE IF Contains(mime, DocxMarker) THEN "docx"
    ELSE IF StartsWith(mime, AudioPrefix) THEN "audio"
    ELSE "note"

\* lines 129-134
Summary(img_meta) ==
    Put(Put(Put(Put(EmptyDict,
        "Camera", S(PyStr(Get(img_meta, "camera_make")) \o " " \o PyStr(Get(img_meta, "camera_model")))),
        "Taken On", Get(img_meta, "datetime_original")),
        "Software", Get(img_meta, "software")),
        "GPS", Get(img_meta, "gps"))

\* the report for every branch but audio, and the exception that escapes
extract_metadata(b) ==
    LET res == Put(EmptyDict, "mime", b.mime)
        branch == Dispatch(b.mime)
    IN CASE branch = "image" ->
              LET r == extract_image_metadata(b)
              IN IF r.exc # None THEN [ret |-> None, exc |-> r.exc]
                 ELSE [ret |-> Put(Put(res, "image", r.ret), "summary", Summary(r.ret)), exc |-> None]
         [] branch = "pdf" ->
              LET r == extract_pdf_metadata(b)
              IN IF r.exc # None THEN [ret |-> None, exc |-> r.exc]
                 ELSE [ret |-> Put(res, "pdf", r.ret), exc |-> None]
         [] branch = "docx" ->
              LET r == extract_docx_metadata(b)
              IN IF r.exc # None THEN [ret |-> None, exc |-> r.exc]
                 ELSE [ret |-> Put(res, "docx", r.ret), exc |-> None]
         [] branch = "note" ->
              [ret |-> Put(res, "note", S("File type not supported")), exc |-> None]

---------------------------------------------------------------------------
(* strip_image_metadata, lines 151-173 *)

\* str.upper() on the format names the codec reports
Upper(fmt) ==
    CASE fmt = "JPEG" -> "JPEG" [] fmt = "MPO" -> "MPO" [] fmt = "PNG" -> "PNG"
      [] fmt = "GIF" -> "GIF" [] fmt = "BMP" -> "BMP" [] fmt = "WEBP" -> "WEBP"
      [] fmt = "TIFF" -> "TIFF"

\* the JPEG encoder: the modes it writes, and the mode its output decodes to
JpegWritable == {"1", "L", "RGB", "RGBX", "CMYK", "YCbCr"}
JpegReopen(mode) ==
    CASE mode = "1" -> "L" [] mode = "L" -> "L" [] mode = "RGB" -> "RGB"
      [] mode = "RGBX" -> "RGB" [] mode = "CMYK" -> "CMYK" [] mode = "YCbCr" -> "RGB"
\* the PNG encoder likewise
PngWritable == {"1", "L", "LA", "I", "I;16", "P", "RGB", "RGBA"}
PngReopen(mode) ==
    CASE mode = "1" -> "1" [] mode = "L" -> "L" [] mode = "LA" -> "LA" [] mode = "I" -> "I"
      [] mode = "I;16" -> "I;16" [] mode = "P" -> "P" [] mode = "RGB" -> "RGB" [] mode = "RGBA" -> "RGBA"

\* cleaned.save(buf, format=...): the buffer written (as the codec decodes
\* it again) or the encoder's exception
Save(im, format) ==
    IF format = "JPEG"
    THEN IF im.mode \in JpegWritable
         THEN [buf |-> Image("JPEG", JpegReopen(im.mode), im.meta), exc |-> None]
         ELSE [buf |-> None, exc |-> S("cannot write mode " \o im.mode \o " as JPEG")]
    ELSE IF im.mode \in PngWritable
         THEN [buf |-> Image("PNG", PngReopen(im.mode), im.meta), exc |-> None]
         ELSE [buf |-> None, exc |-> S("cannot write mode " \o im.mode \o " as PNG")]

\* ClearInfo left out: the copy keeps the source's info
ClearInfoKeep(im) == im

\* line 158: cleaned.info = {}
ClearInfo(im) == [im EXCEPT !.meta = FALSE]

\* lines 161 and 167: the modes converted to RGB before a JPEG save
ConvertedModes == {"RGBA", "LA", "P"}
Convert(im, mode) == [im EXCEPT !.mode = mode]

\* try body, lines 155-171
StripBody(img) ==
    IF ~img.ok
    THEN [buf |-> None, exc |-> S(img.err), converted |-> FALSE, fmt |-> ""]
    ELSE LET fmt == Upper(img.format)
             cleaned == ClearInfo(img)
             conv == fmt # "PNG" /\ cleaned.mode \in ConvertedModes
             cleaned1 == IF conv THEN Convert(cleaned, "RGB") ELSE cleaned
             saved == IF fmt = "JPEG" THEN Save(cleaned1, "JPEG")
                      ELSE IF fmt = "PNG" THEN Save(cleaned, "PNG")
                      ELSE Save(cleaned1, "JPEG")
         IN [buf |-> saved.buf, exc |-> saved.exc, converted |-> conv, fmt |-> fmt]

\* lines 151-173: the returned buffer or the RuntimeError raised
strip_image_metadata(img) ==
    LET r == StripBody(img)
    IN IF r.exc # None
       THEN [ok |-> FALSE, exc |-> S("Failed to strip metadata: " \o r.exc.str)]
       ELSE [ok |-> TRUE, buf |-> r.buf, converted |-> r.converted, fmt |-> r.fmt, exc |-> None]

---------------------------------------------------------------------------
(* clean_file, main.py lines 31-56 *)

NamePhotoJpg == <<"p", "h", "o", "t", "o", ".", "j", "p", "g">>
NameAnimGif == <<"a", "n", "i", "m", ".", "g", "i", "f">>
NameArchive == <<"a", ".", "t", "a", "r", ".", "p", "n", "g">>
NameNoExt == <<"p", "h", "o", "t", "o">>
NameDotfile == <<".", "h", "i", "d", "d", "e", "n">>
NameDir == <<"u", "p", ".", "d", "/", "p", "i", "c">>
NoName == << >>
FileNames == {NamePhotoJpg, NameAnimGif, NameArchive, NameNoExt, NameDotfile, NameDir, NoName}

DefaultName == <<"c", "l", "e", "a", "n", "e", "d", ".", "j", "p", "g">>
ExtJpg == <<".", "j", "p", "g">>
ExtPng == <<".", "p", "n", "g">>
CleanedSuffix == <<"_", "c", "l", "e", "a", "n", "e", "d">>

\* str.rfind, 1-based, 0 when absent
RFind(p, c) == IF \E i \in 1..Len(p) : p[i] = c
               THEN CHOOSE i \in 1..Len(p) : p[i] = c /\ \A j \in (i + 1)..Len(p) : p[j] # c
               ELSE 0

\* os.path.splitext: the last dot of the base name, leading dots skipped
splitext(p) ==
    LET sepIndex == RFind(p, "/")
        dotIndex == RFind(p, ".")
    IN IF dotIndex > sepIndex /\ \E i \in (sepIndex + 1)..(dotIndex - 1) : p[i] # "."
       THEN [root |-> SubSeq(p, 1, dotIndex - 1), ext |-> SubSeq(p, dotIndex, Len(p))]
       ELSE [root |-> p, ext |-> << >>]

\* line 53: the mimetype handed to send_file
ResponseMime(mime, buf) == mime

clean_file(req) ==
    IF ~req.hasFile
    THEN [status |-> 400, error |-> S("No file uploaded")]
    ELSE LET mime == req.mime
         IN IF ~StartsWith(mime, ImagePrefix)
            THEN [status |-> 400, error |-> S("Only image cleaning supported")]
            ELSE LET r == strip_image_metadata(req.img)
                 IN IF ~r.ok
                    THEN [status |-> 500, error |-> r.exc]
                    ELSE LET parts == splitext(IF req.filename = << >> THEN DefaultName ELSE req.filename)
                             ext == IF parts.ext = << >>
                                    THEN (IF mime = MimeJpeg THEN ExtJpg ELSE ExtPng)
                                    ELSE parts.ext
                         IN [status |-> 200, body |-> r.buf,
                             mimetype |-> ResponseMime(mime, r.buf),
                             download_name |-> parts.root \o CleanedSuffix \o ext]

---------------------------------------------------------------------------
(* The calls: an entry point and the buffer (the collaborators' answers) *)

Call(op, mime, img, exif, doc, hasFile, filename) ==
    [op |-> op, mime |-> mime, img |-> img, exif |-> exif, doc |-> doc,
     hasFile |-> hasFile, filename |-> filename]

ExtractCalls ==
    {Call("extract", MimeJpeg, i, e, DocFailed, TRUE, NoName) :
        i \in {NoImage, Image("JPEG", "RGB", TRUE)}, e \in ExifAnswers}
    \cup {Call("extract", m, i, e, DocFailed, TRUE, NoName) :
        m \in ImageMimes, i \in {NoImage, Image("PNG", "RGBA", FALSE)}, e \in ExifFew}
    \cup {Call("extract", MimePdf, NoImage, ExifFailed, d, TRUE, NoName) : d \in PdfAnswers}
    \cup {Call("extract", MimeDocx, NoImage, ExifFailed, d, TRUE, NoName) : d \in DocxAnswers}
    \cup {Call("extract", m, NoImage, ExifFailed, DocFailed, TRUE, NoName) :
        m \in AudioMimes \cup OtherMimes}

StripCalls ==
    {Call("strip", MimeOfFormat(i.format), i, ExifFailed, DocFailed, TRUE, NoName) : i \in DecodableImages}
    \cup {Call("strip", m, NoImage, ExifFailed, DocFailed, TRUE, NoName) : m \in {MimeJpeg, MimeSvg, MimeText}}

CleanCalls ==
    {Call("clean", MimeOfFormat(i.format), i, ExifFailed, DocFailed, TRUE, n) :
        i \in DecodableImages, n \in FileNames}
    \cup {Call("clean", m, NoImage, ExifFailed, DocFailed, TRUE, n) :
        m \in {MimeJpeg, MimeSvg, MimeText, MimePdf}, n \in {NamePhotoJpg, NoName}}
    \cup {Call("clean", MimeEmpty, NoImage, ExifFailed, DocFailed, FALSE, NoName)}

Calls == ExtractCalls \cup StripCalls \cup CleanCalls

---------------------------------------------------------------------------
(* The state machine *)

Init ==
    /\ pc = "start"
    /\ call \in Calls
    /\ result = None
    /\ raised = None
    /\ info = EmptyDict
    /\ tmp = "none"
    /\ written = FALSE
    /\ flushed = FALSE
    /\ pending = None
    /\ parsedAt = None
    /\ stripped = None
    /\ restripped = None
    /\ response = None

\* extract_metadata on a buffer that is not routed to the audio extractor
ExtractMetadata ==
    /\ pc = "start"
    /\ call.op = "extract"
    /\ Dispatch(call.mime) # "audio"
    /\ LET r == extract_metadata(call)
       IN /\ result' = r.ret
          /\ raised' = r.exc
    /\ pc' = "done"
    /\ UNCHANGED <<call, info, tmp, written, flushed, pending, parsedAt, stripped, restripped, response>>

\* extract_metadata lines 123-124 and 142-143: the call into extract_audio_metadata
ExtractMetadataAudio ==
    /\ pc = "start"
    /\ call.op = "extract"
    /\ Dispatch(call.mime) = "audio"
    /\ result' = Put(EmptyDict, "mime", call.mime)
    /\ info' = EmptyDict
    /\ pc' = "audio_open"
    /\ UNCHANGED <<call, raised, tmp, written, flushed, pending, parsedAt, stripped, restripped, response>>

\* line 110: NamedTemporaryFile(delete=True) is created, or creation fails
AudioOpen ==
    /\ pc = "audio_open"
    /\ \E fails \in BOOLEAN :
          IF fails
          THEN /\ pending' = S("cannot create temporary file")
               /\ pc' = "audio_except"
               /\ tmp' = tmp
          ELSE /\ tmp' = "open"
               /\ pc' = "audio_write"
               /\ pending' = pending
    /\ UNCHANGED <<call, result, raised, info, written, flushed, parsedAt, stripped, restripped, response>>

\* line 111: t.write(file_bytes)
AudioWrite ==
    /\ pc = "audio_write"
    /\ \E fails \in BOOLEAN :
          IF fails
          THEN /\ pending' = S("No space left on device")
               /\ pc' = "audio_exit"
               /\ written' = written
          ELSE /\ written' = TRUE
               /\ pc' = "audio_flush"
               /\ pending' = pending
    /\ UNCHANGED <<call, result, raised, info, tmp, flushed, parsedAt, stripped, restripped, response>>

\* line 112: t.flush()
AudioFlush ==
    /\ pc = "audio_flush"
    /\ \E fails \in BOOLEAN :
          IF fails
          THEN /\ pending' = S("No space left on device")
               /\ pc' = "audio_exit"
               /\ flushed' = flushed
          ELSE /\ flushed' = TRUE
               /\ pc' = "audio_parse"
               /\ pending' = pending
    /\ UNCHANGED <<call, result, raised, info, tmp, written, parsedAt, stripped, restripped, response>>

\* what MutagenFile answers: it raises, returns None, or returns a file
\* object, which is falsy when it carries no tags (its len() is 0)
MutagenAnswers ==
    {[kind |-> "raises", err |-> S("can't sync to MPEG frame")],
     [kind |-> "none"],
     [kind |-> "file", tags |-> None, length |-> None],
     [kind |-> "file", tags |-> ("TIT2" :> S("Song")), length |-> Float(1805, 10)],
     [kind |-> "file", tags |-> ("TIT2" :> S("Song")), length |-> None]}

\* lines 113-116: the parser is invoked on t.name; tags and length are read
AudioParse ==
    /\ pc = "audio_parse"
    /\ \E audio \in MutagenAnswers :
          /\ parsedAt' = [written |-> written, flushed |-> flushed, answer |-> audio.kind]
          /\ CASE audio.kind = "raises" ->
                    /\ pending' = audio.err
                    /\ info' = info
               [] audio.kind = "none" ->
                    /\ pending' = pending
                    /\ info' = info
               [] audio.kind = "file" ->
                    /\ pending' = pending
                    /\ info' = IF audio.tags # None
                               THEN Put(Put(info, "tags", audio.tags), "length", audio.length)
                               ELSE info
    /\ pc' = "audio_exit"
    /\ UNCHANGED <<call, result, raised, tmp, written, flushed, stripped, restripped, response>>

\* AudioExit for a temporary file that is not removed on close
AudioExitLeak ==
    /\ pc = "audio_exit"
    /\ pc' = IF pending # None THEN "audio_except" ELSE "audio_return"
    /\ UNCHANGED <<call, result, raised, info, tmp, written, flushed, pending, parsedAt, stripped, restripped, response>>

\* line 110, leaving the with block (normally or by exception): the
\* temporary file is closed, and delete=True removes it
AudioExit ==
    /\ pc = "audio_exit"
    /\ tmp' = "released"
    /\ pc' = IF pending # None THEN "audio_except" ELSE "audio_return"
    /\ UNCHANGED <<call, result, raised, info, written, flushed, pending, parsedAt, stripped, restripped, response>>

\* lines 117-118
AudioExcept ==
    /\ pc = "audio_except"
    /\ info' = Put(info, "audio_error", pending)
    /\ pending' = None
    /\ pc' = "audio_return"
    /\ UNCHANGED <<call, result, raised, tmp, written, flushed, parsedAt, stripped, restripped, response>>

\* line 119, and extract_metadata lines 143 and 148
AudioReturn ==
    /\ pc = "audio_return"
    /\ result' = Put(result, "audio", info)
    /\ pc' = "done"
    /\ UNCHANGED <<call, raised, info, tmp, written, flushed, pending, parsedAt, stripped, restripped, response>>

\* strip_image_metadata on the buffer
StripImageMetadata ==
    /\ pc = "start"
    /\ call.op = "strip"
    /\ LET r == strip_image_metadata(call.img)
       IN /\ stripped' = r
          /\ raised' = r.exc
          /\ pc' = IF r.ok THEN "stripped" ELSE "done"
    /\ UNCHANGED <<call, result, info, tmp, written, flushed, pending, parsedAt, restripped, response>>

\* strip_image_metadata on the buffer the first call returned
StripAgain ==
    /\ pc = "stripped"
    /\ LET r == strip_image_metadata(stripped.buf)
       IN /\ restripped' = r
          /\ raised' = r.exc
    /\ pc' = "done"
    /\ UNCHANGED <<call, result, info, tmp, written, flushed, pending, parsedAt, stripped, response>>

\* POST /api/clean
CleanFile ==
    /\ pc = "start"
    /\ call.op = "clean"
    /\ response' = clean_file(call)
    /\ pc' = "done"
    /\ UNCHANGED <<call, result, raised, info, tmp, written, flushed, pending, parsedAt, stripped, restripped>>

Next ==
    \/ ExtractMetadata
    \/ ExtractMetadataAudio
    \/ AudioOpen
    \/ AudioWrite
    \/ AudioFlush
    \/ AudioParse
    \/ AudioExit
    \/ AudioExcept
    \/ AudioReturn
    \/ StripImageMetadata
    \/ StripAgain
    \/ CleanFile

Spec == Init /\ [][Next]_vars

---------------------------------------------------------------------------
(* Properties *)

ExtractDone == pc = "done" /\ call.op = "extract"
\* a completed extract_metadata call whose report has an image section
ImageDone == ExtractDone /\ raised = None /\ "image" \in DOMAIN result
SectionKeys == {"image", "pdf", "docx", "audio", "note"}

GpsTagNames == {TagLat, TagLatRef, TagLon, TagLonRef}
AllFourPresent(tags) == GpsTagNames \subseteq DOMAIN tags
\* a rational triple of three components with non-zero denominators
WellFormed(value) == Len(value) = 3 /\ \A i \in 1..3 : value[i].den > 0
\* d + m/60 + s/3600 over the common denominator
Degrees(value) ==
    Float(3600 * value[1].num * value[2].den * value[3].den
            + 60 * value[2].num * value[1].den * value[3].den
            + value[3].num * value[1].den * value[2].den,
          3600 * value[1].den * value[2].den * value[3].den)
\* a non-negative float cut to five decimals: <<integer part, decimals>>
Decimals5(f) == <<f.num \div f.den, ((f.num % f.den) * 100000) \div f.den>>
\* the EXIF step of the call ends in an exception: the parser fails, or a
\* coordinate that did not convert is negated
ExifStepFails(c) ==
    \/ ~c.exif.ok
    \/ /\ AllFourPresent(c.exif.tags)
       /\ \/ c.exif.tags[TagLatRef].values # "N" /\ ~WellFormed(c.exif.tags[TagLat].values)
          \/ c.exif.tags[TagLonRef].values # "E" /\ ~WellFormed(c.exif.tags[TagLon].values)

\* C1: extract_metadata never raises and its report holds 'mime' and exactly
\* one of 'image', 'pdf', 'docx', 'audio', 'note': 'image' iff the MIME starts
\* with "image/", 'pdf' iff it is "application/pdf", 'docx' iff it contains
\* "wordprocessingml", 'audio' iff it starts with "audio/", and otherwise
\* 'note' = "File type not supported"; also when the collaborator fails.
C1_ExactlyOneSection ==
    ExtractDone =>
        /\ raised = None
        /\ "mime" \in DOMAIN result
        /\ result["mime"] = call.mime
        /\ Cardinality(DOMAIN result \cap SectionKeys) = 1
        /\ "image" \in DOMAIN result <=> StartsWith(call.mime, ImagePrefix)
        /\ "pdf" \in DOMAIN result <=> call.mime = MimePdf
        /\ "docx" \in DOMAIN result <=> Contains(call.mime, DocxMarker)
        /\ "audio" \in DOMAIN result <=> StartsWith(call.mime, AudioPrefix)
        /\ "note" \in DOMAIN result <=>
              ~(\/ StartsWith(call.mime, ImagePrefix)
                \/ call.mime = MimePdf
                \/ Contains(call.mime, DocxMarker)
                \/ StartsWith(call.mime, AudioPrefix))
        /\ "note" \in DOMAIN result => result["note"] = S("File type not supported")

\* a PDF whose parser fails still yields a report with the pdf section
C1_Witness ==
    /\ ExtractDone
    /\ call.mime = MimePdf
    /\ ~call.doc.ok
    /\ "pdf" \in DOMAIN result
    /\ "pdf_error" \in DOMAIN result["pdf"]

\* C2: presence_report.gps_data is true iff all four raw GPS fields are in
\* the parsed tags; when one is absent 'gps' is "No GPS data found" and
\* gps_data is false.
C2_GpsPresenceIffAllFour ==
    (ImageDone /\ call.exif.ok) =>
        LET im == result["image"]
            all4 == AllFourPresent(call.exif.tags)
        IN /\ im["presence_report"].gps_data <=> all4
           /\ ~all4 => /\ Get(im, "gps") = S("No GPS data found")
                       /\ ~im["presence_report"].gps_data

\* C3: with all four GPS fields present and a latitude or longitude triple
\* that does not convert, the coordinate is treated as unavailable: no
\* 'exif_error' is recorded and no null latitude/longitude is reported with
\* gps_data true.
C3_MalformedTripleIsAbsentCoordinate ==
    (/\ ImageDone
     /\ call.exif.ok
     /\ AllFourPresent(call.exif.tags)
     /\ \/ ~WellFormed(call.exif.tags[TagLat].values)
        \/ ~WellFormed(call.exif.tags[TagLon].values)) =>
        LET im == result["image"]
        IN /\ "exif_error" \notin DOMAIN im
           /\ ~(/\ im["presence_report"].gps_data
                /\ "gps" \in DOMAIN im
                /\ im["gps"] # S("No GPS data found")
                /\ (im["gps"].latitude = None \/ im["gps"].longitude = None))

\* the case of C4: all four GPS fields present, both triples well-formed
WellFormedGps(c) ==
    /\ c.exif.ok
    /\ AllFourPresent(c.exif.tags)
    /\ WellFormed(c.exif.tags[TagLat].values)
    /\ WellFormed(c.exif.tags[TagLon].values)

\* C4: for well-formed GPS fields the latitude is d + m/60 + s/3600 when the
\* reference is exactly "N" and its negation (never above zero, below zero
\* when the value is above zero) for every other reference; the longitude
\* likewise with "E".  (40/1, 26/1, 46/1) gives 40.44611 with "N" and
\* -40.44611 with "S", to five decimals.
C4_SignConvention ==
    (ImageDone /\ WellFormedGps(call)) =>
        LET im == result["image"]
            t == call.exif.tags
            dlat == Degrees(t[TagLat].values)
            dlon == Degrees(t[TagLon].values)
        IN /\ "gps" \in DOMAIN im
           /\ DOMAIN im["gps"] = {"latitude", "longitude"}
           /\ LET lat == im["gps"].latitude
                  lon == im["gps"].longitude
              IN /\ lat # None /\ lon # None
                 /\ t[TagLatRef].values = "N" => lat = dlat
                 /\ t[TagLatRef].values # "N" =>
                        /\ lat = FNeg(dlat)
                        /\ lat.num <= 0
                        /\ dlat.num > 0 => lat.num < 0
                 /\ t[TagLonRef].values = "E" => lon = dlon
                 /\ t[TagLonRef].values # "E" =>
                        /\ lon = FNeg(dlon)
                        /\ lon.num <= 0
                        /\ dlon.num > 0 => lon.num < 0
                 /\ (t[TagLat].values = TripleSpec /\ t[TagLatRef].values = "N") =>
                        Decimals5(lat) = <<40, 44611>>
                 /\ (t[TagLat].values = TripleSpec /\ t[TagLatRef].values = "S") =>
                        Decimals5(FNeg(lat)) = <<40, 44611>>

\* the spec's triple with the lower-case reference "n" is reported negative
C4_Witness ==
    /\ ImageDone
    /\ WellFormedGps(call)
    /\ call.exif.tags[TagLat].values = TripleSpec
    /\ call.exif.tags[TagLatRef].values = "n"
    /\ call.exif.tags[TagLonRef].values = "E"
    /\ result["image"]["gps"].latitude.num < 0
    /\ result["image"]["gps"].longitude.num > 0

\* C5: when the codec decodes the buffer and the EXIF step fails, the image
\* section holds the codec's 'format', 'size', 'mode' with 'exif_error' and
\* 'presence_report'; when the codec fails and the EXIF step succeeds it holds
\* 'image_error' and the derived tag fields; for every pair of outcomes the
\* image section is there and the call does not raise.
C5_PartialFailureIsolation ==
    (ExtractDone /\ StartsWith(call.mime, ImagePrefix)) =>
        /\ raised = None
        /\ "image" \in DOMAIN result
        /\ LET im == result["image"]
           IN /\ "presence_report" \in DOMAIN im
              /\ "exif_error" \in DOMAIN im <=> ExifStepFails(call)
              /\ "image_error" \in DOMAIN im <=> ~call.img.ok
              /\ (call.img.ok /\ ExifStepFails(call)) =>
                     /\ {"format", "size", "mode", "exif_error", "presence_report"} \subseteq DOMAIN im
                     /\ im["format"] = S(call.img.format)
                     /\ im["size"] = call.img.size
                     /\ im["mode"] = S(call.img.mode)
              /\ (~call.img.ok /\ ~ExifStepFails(call)) =>
                     {"image_error", "raw_exif", "camera_make", "camera_model",
                      "datetime_original", "software", "gps"} \subseteq DOMAIN im

\* a decodable image whose EXIF parser fails
C5_Witness ==
    /\ ImageDone
    /\ call.img.ok
    /\ ~call.exif.ok
    /\ {"format", "size", "mode", "exif_error"} \subseteq DOMAIN result["image"]

\* C6: for every image report the summary has Camera = "<make> <model>" from
\* the derived camera_make and camera_model, 'Taken On' = datetime_original,
\* Software = software, and GPS a coordinate or "No GPS data found"; for
\* every outcome of the image extractor.
C6_SummaryFromDerivedFields ==
    ImageDone =>
        LET im == result["image"]
            sm == result["summary"]
        IN /\ {"camera_make", "camera_model", "datetime_original", "software"} \subseteq DOMAIN im
           /\ sm["Camera"] = S(im["camera_make"].str \o " " \o im["camera_model"].str)
           /\ sm["Taken On"] = im["datetime_original"]
           /\ sm["Software"] = im["software"]
           /\ \/ sm["GPS"] = S("No GPS data found")
              \/ DOMAIN sm["GPS"] = {"latitude", "longitude"}

\* the pixel modes that carry an alpha channel
AlphaModes == {"LA", "La", "PA", "RGBA", "RGBa"}
StripDone == call.op = "strip" /\ pc \in {"stripped", "done"}

\* C7: stripping a decodable image whose format is neither JPEG nor PNG
\* returns, for every pixel mode, a JPEG buffer whose mode has no alpha
\* channel; it does not fail.
C7_FormatFallback ==
    (StripDone /\ call.img.ok /\ call.img.format \notin {"JPEG", "PNG"}) =>
        /\ stripped.ok
        /\ stripped.buf.format = "JPEG"
        /\ stripped.buf.mode \notin AlphaModes

\* the file name has an extension that os.path.splitext finds
HasExtension(name) == name # << >> /\ splitext(name).ext # << >>

\* C8: for an image upload that is stripped, /api/clean sends the MIME type
\* of the format the returned buffer is encoded in, and the download name is
\* the original name with "_cleaned" before the extension.
C8_ResponseDescribesBuffer ==
    (pc = "done" /\ call.op = "clean" /\ response.status = 200) =>
        /\ response.mimetype = MimeOfFormat(response.body.format)
        /\ HasExtension(call.filename) =>
              \E k \in 1..Len(call.filename) :
                  /\ call.filename[k] = "."
                  /\ \A j \in (k + 1)..Len(call.filename) : call.filename[j] \notin {".", "/"}
                  /\ response.download_name =
                         SubSeq(call.filename, 1, k - 1) \o CleanedSuffix
                             \o SubSeq(call.filename, k, Len(call.filename))

\* C9: when strip_image_metadata succeeds on x, it succeeds on its output
\* and yields the same encoded format (JPEG or PNG), the same pixel mode and
\* again no ancillary metadata, with no mode conversion and no format change
\* in the second application.
C9_StripIdempotent ==
    (call.op = "strip" /\ pc = "done" /\ stripped.ok) =>
        /\ restripped.ok
        /\ stripped.buf.format \in {"JPEG", "PNG"}
        /\ restripped.buf.format = stripped.buf.format
        /\ restripped.buf.mode = stripped.buf.mode
        /\ restripped.buf.size = stripped.buf.size
        /\ ~stripped.buf.meta
        /\ ~restripped.buf.meta
        /\ ~restripped.converted
        /\ restripped.fmt = stripped.buf.format

\* a palette GIF carrying metadata: converted and re-encoded as JPEG by the
\* first application, left as it is by the second
C9_Witness ==
    /\ call.op = "strip"
    /\ pc = "done"
    /\ call.img.ok
    /\ call.img.format = "GIF"
    /\ call.img.mode = "P"
    /\ call.img.meta
    /\ stripped.ok
    /\ stripped.converted
    /\ restripped.ok
    /\ restripped.buf = Image("JPEG", "RGB", FALSE)

\* the audio extractor's call failed on some path
AudioFailed == tmp = "none" \/ ~written \/ ~flushed \/ parsedAt.answer = "raises"

\* C10: on every exit path of extract_audio_metadata the temporary file is
\* released before the call returns, the call returns a mapping and does not
\* raise, with 'audio_error' set on the failure paths, and the parser is
\* never invoked before the buffer has been written and flushed.
C10_ScopedTemporaryFile ==
    /\ pc \in {"audio_except", "audio_return"} => tmp # "open"
    /\ parsedAt # None => (parsedAt.written /\ parsedAt.flushed)
    /\ (ExtractDone /\ StartsWith(call.mime, AudioPrefix)) =>
          /\ tmp # "open"
          /\ raised = None
          /\ pending = None
          /\ "audio" \in DOMAIN result
          /\ "audio_error" \in DOMAIN result["audio"] <=> AudioFailed

\* the parser raised on the written and flushed file; the file is released
\* and the error is in the returned mapping
C10_Witness ==
    /\ ExtractDone
    /\ parsedAt # None
    /\ parsedAt.answer = "raises"
    /\ tmp = "released"
    /\ "audio_error" \in DOMAIN result["audio"]

====
